---- MODULE Spec2Model ----
(***************************************************************************)
(* Question bank management system (app.py): the question store, the two   *)
(* ingestion paths (manual add, Excel import) with their duplicate checks, *)
(* question edit and delete, and the paper sampler generate_question_set.  *)
(***************************************************************************)
EXTENDS Integers, Sequences, FiniteSets, TLC

VARIABLES
    subjects,   \* rows of table subjects: set of subject ids
    modules,    \* rows of table modules: records [id, subject_id]
    topics,     \* rows of table topics: records [id, module_id]
    questions,  \* rows of table questions
    qseq,       \* sqlite_sequence of questions: the last AUTOINCREMENT id handed out
    users,      \* rows of table users: records [id, role]
    logs,       \* number of rows of table logs (rows are only ever appended)
    session,    \* the Flask session: NoSession or [user_id, role]
    req,        \* the request handled last
    flash,      \* the message flashed by the request handled last
    paper,      \* paper_questions returned by the last generate_question_set
    inflight,   \* the calls of generate_question_set that are under way, per worker
    adding,     \* the manual adds that are between their SELECT and their INSERT
    hseq        \* sqlite_sequence: the last id given out in subjects, modules, topics

vars == <<subjects, modules, topics, questions, qseq, users, logs, session,
          req, flash, paper, inflight, adding, hseq>>

tables == <<subjects, modules, topics, questions, users, logs>>

(***************************************************************************)
(* Bounds of the model.                                                    *)
(***************************************************************************)
MaxQuestions == 3      \* question ids handed out in one behaviour
MaxLogs == 4           \* log rows written in one behaviour
MaxRows == 2           \* rows of one imported sheet
MaxCount == 2          \* largest quota of a band
MaxCalls == 2          \* calls of generate_question_set under way at once
MaxHier == 3           \* rows ever created in subjects, in modules and in topics
MaxUsers == 3          \* rows of the users table

(***************************************************************************)
(* Values.  Texts are sequences of characters so that strip() can be       *)
(* computed; NULL (created_by of an imported row) is 0, ids start at 1.    *)
(***************************************************************************)
NULL == 0
NoSession == [user_id |-> NULL, role |-> "none"]
Absent == "<absent>"          \* a form field or sheet column that is not sent
NaN == "<nan>"                \* pandas' value of an empty cell

Min(a, b) == IF a <= b THEN a ELSE b
Max(a, b) == IF a >= b THEN a ELSE b

\* str.strip(): drop leading and trailing whitespace
RECURSIVE lstrip(_)
lstrip(s) == IF s # <<>> /\ Head(s) = " " THEN lstrip(Tail(s)) ELSE s

RECURSIVE rstrip(_)
rstrip(s) == IF s # <<>> /\ s[Len(s)] = " " THEN rstrip(SubSeq(s, 1, Len(s) - 1)) ELSE s

strip(s) == rstrip(lstrip(s))

\* request.form.get(name, default), for the fields that are sent as plain words
form_get(v, default) == IF v = Absent THEN default ELSE v

(***************************************************************************)
(* The store.                                                              *)
(***************************************************************************)
\* one row of table questions (CREATE TABLE questions)
Question(id, topic_id, question_text, marks, difficulty, cognitive_level, co, po, created_by) ==
    [id |-> id, topic_id |-> topic_id, question_text |-> question_text,
     marks |-> marks, difficulty |-> difficulty, cognitive_level |-> cognitive_level,
     co |-> co, po |-> po, created_by |-> created_by]

\* FROM topics t JOIN modules m ON t.module_id = m.id JOIN subjects s ON m.subject_id = s.id
\* WHERE t.id = topic_id: the subject ids of the joined rows (empty: no row)
topic_subjects(topic_id) ==
    {m.subject_id : m \in {m \in modules :
        /\ \E t \in topics : t.id = topic_id /\ t.module_id = m.id
        /\ m.subject_id \in subjects}}

\* login_required: "user_id" not in session
logged_in == session.user_id # NULL

\* mutant of is_admin: the role of the session is not looked at
is_admin_any_role == session.user_id # NULL

\* admin_required, after the login test
is_admin == session.role = "admin"

\* add_log(user_id, action): one more row, unless user_id is falsy
add_log(user_id) == IF user_id = NULL THEN logs ELSE logs + 1

\* a worker that runs no call of generate_question_set
Idle == [pc |-> "idle", subject_id |-> 0, dist |-> <<>>, i |-> 0, paper_questions |-> <<>>]

Workers == 1..MaxCalls

\* a worker that is not inside the add branch of questions()
NotAdding == [pc |-> "idle", topic_id |-> 0, question_text |-> <<>>, user_id |-> 0,
              duplicate |-> FALSE]

\* the state after init_db() and a first set-up by the admin: two subjects with one
\* module and one topic each, an admin and a faculty account, no question yet
Init ==
    /\ subjects = {1, 2}
    /\ modules = {[id |-> 1, subject_id |-> 1], [id |-> 2, subject_id |-> 2]}
    /\ topics = {[id |-> 1, module_id |-> 1], [id |-> 2, module_id |-> 2]}
    /\ questions = {}
    /\ qseq = 0
    /\ users = {[id |-> 1, role |-> "admin"], [id |-> 2, role |-> "faculty"]}
    /\ logs = 0
    /\ session = NoSession
    /\ req = [op |-> "none"]
    /\ flash = ""
    /\ paper = <<>>
    /\ inflight = [w \in Workers |-> Idle]
    /\ adding = [w \in Workers |-> NotAdding]
    /\ hseq = [subjects |-> 2, modules |-> 2, topics |-> 2]

(***************************************************************************)
(* Authentication.                                                         *)
(***************************************************************************)
\* POST /login with the right password of user u
login(u) ==
    /\ u \in users
    /\ logs < MaxLogs
    /\ session' = [user_id |-> u.id, role |-> u.role]
    /\ logs' = add_log(u.id)
    /\ req' = [op |-> "login", user_id |-> u.id]
    /\ flash' = "Logged in"
    /\ paper' = <<>>
    /\ UNCHANGED <<hseq, subjects, modules, topics, questions, qseq, users>>

\* GET /logout
logout ==
    /\ logs < MaxLogs
    /\ logs' = add_log(session.user_id)
    /\ session' = NoSession
    /\ req' = [op |-> "logout"]
    /\ flash' = "Logged out."
    /\ paper' = <<>>
    /\ UNCHANGED <<hseq, subjects, modules, topics, questions, qseq, users>>

\* mutant of refused: the request that is turned away is logged
refused_and_logged(r, message) ==
    /\ logs < MaxLogs
    /\ logs' = logs + 1
    /\ req' = r
    /\ flash' = message
    /\ paper' = <<>>
    /\ UNCHANGED <<hseq, subjects, modules, topics, questions, qseq, users, session>>

\* a request that ends without touching a table: the message it flashes, if any
\* (what login_required and admin_required do, and every early return of a handler)
refused(r, message) ==
    /\ req' = r
    /\ flash' = message
    /\ paper' = <<>>
    /\ UNCHANGED <<hseq, subjects, modules, topics, questions, qseq, users, logs, session>>

\* POST /create-user with a username that is not taken and a password
create_user(role) ==
    LET r == [op |-> "create_user", role |-> role]
    IN  IF ~logged_in THEN refused(r, "Please login to continue.")
        ELSE IF ~is_admin THEN refused(r, "Admin access required.")
        ELSE /\ Cardinality(users) < MaxUsers
             /\ logs < MaxLogs
             /\ users' = users \cup {[id |-> Cardinality(users) + 1, role |-> role]}
             /\ logs' = add_log(session.user_id)
             /\ req' = r
             /\ flash' = "User created successfully."
             /\ paper' = <<>>
             /\ UNCHANGED <<hseq, subjects, modules, topics, questions, qseq, session>>

(***************************************************************************)
(* Questions of a topic: manual add and delete.                            *)
(***************************************************************************)
\* mutant of duplicate_in_topic: the check forgets the topic
duplicate_in_any_topic(qs, question_text, topic_id) ==
    \E q \in qs : q.question_text = question_text

\* DUPLICATE CHECK of the manual add:
\* SELECT id FROM questions WHERE question_text=? AND topic_id=?
duplicate_in_topic(qs, question_text, topic_id) ==
    \E q \in qs : q.question_text = question_text /\ q.topic_id = topic_id

\* POST /topics/<topic_id>/questions, action=add
questions_add(topic_id, text, marks, difficulty, cognitive_level, co, po) ==
    LET r == [op |-> "add", topic_id |-> topic_id, question_text |-> text,
              marks |-> marks, difficulty |-> difficulty,
              cognitive_level |-> cognitive_level, co |-> co, po |-> po]
        question_text == strip(text)
        user_id == session.user_id
    IN  IF ~logged_in THEN refused(r, "Please login to continue.")
        ELSE IF topic_subjects(topic_id) = {} THEN refused(r, "Topic not found.")
        ELSE IF question_text = <<>> THEN refused(r, "")
        ELSE IF duplicate_in_topic(questions, question_text, topic_id)
             THEN refused(r, "Duplicate question found! Please add a different question.")
        ELSE /\ qseq < MaxQuestions
             /\ logs < MaxLogs
             /\ questions' = questions \cup
                    {Question(qseq + 1, topic_id, question_text,
                              form_get(marks, "2"),
                              form_get(difficulty, "Medium"),
                              form_get(cognitive_level, "Understand"),
                              strip(co), strip(po), user_id)}
             /\ qseq' = qseq + 1
             /\ logs' = add_log(user_id)
             /\ req' = r
             /\ flash' = "Question added."
             /\ paper' = <<>>
             /\ UNCHANGED <<hseq, subjects, modules, topics, users, session>>

\* mutant of delete_rows: the DELETE forgets "AND created_by=?"
delete_rows_of_anyone(qs, q_id, user_id, role) == {q \in qs : q.id # q_id}

\* the rows left by DELETE FROM questions WHERE id=? [AND created_by=?]:
\* an admin deletes any question, the others only their own
delete_rows(qs, q_id, user_id, role) ==
    IF role = "admin"
    THEN {q \in qs : q.id # q_id}
    ELSE {q \in qs : ~(q.id = q_id /\ q.created_by = user_id)}

\* POST /topics/<topic_id>/questions, action=delete
questions_delete(topic_id, q_id) ==
    LET r == [op |-> "delete", topic_id |-> topic_id, question_id |-> q_id]
    IN  IF ~logged_in THEN refused(r, "Please login to continue.")
        ELSE IF topic_subjects(topic_id) = {} THEN refused(r, "Topic not found.")
        ELSE /\ logs < MaxLogs
             /\ questions' = delete_rows(questions, q_id, session.user_id, session.role)
             /\ logs' = add_log(session.user_id)
             /\ req' = r
             /\ flash' = "Question deleted (if you had permission)."
             /\ paper' = <<>>
             /\ UNCHANGED <<hseq, subjects, modules, topics, qseq, users, session>>

(***************************************************************************)
(* Question edit.                                                          *)
(***************************************************************************)
\* mutant of update_rows: the UPDATE has no WHERE id=?
update_rows_everywhere(qs, question_id, question_text, marks, difficulty, cognitive_level, co, po) ==
    {[q EXCEPT !.question_text = question_text, !.marks = marks,
               !.difficulty = difficulty, !.cognitive_level = cognitive_level,
               !.co = co, !.po = po] : q \in qs}

\* UPDATE questions SET question_text=?, marks=?, difficulty=?, cognitive_level=?,
\* co=?, po=? WHERE id=?
update_rows(qs, question_id, question_text, marks, difficulty, cognitive_level, co, po) ==
    {IF q.id = question_id
     THEN [q EXCEPT !.question_text = question_text, !.marks = marks,
                    !.difficulty = difficulty, !.cognitive_level = cognitive_level,
                    !.co = co, !.po = po]
     ELSE q : q \in qs}

\* POST /questions/<question_id>/edit
edit_question(question_id, text, marks, difficulty, cognitive_level, co, po) ==
    LET r == [op |-> "edit", question_id |-> question_id, question_text |-> text,
              marks |-> marks, difficulty |-> difficulty,
              cognitive_level |-> cognitive_level, co |-> co, po |-> po]
        found == {q \in questions : q.id = question_id /\ topic_subjects(q.topic_id) # {}}
    IN  IF ~logged_in THEN refused(r, "Please login to continue.")
        ELSE IF found = {} THEN refused(r, "Question not found.")
        ELSE IF session.role # "admin" /\ \E q \in found : q.created_by # session.user_id
             THEN refused(r, "You do not have permission to edit this question.")
        ELSE /\ logs < MaxLogs
             /\ questions' = update_rows(questions, question_id, strip(text),
                                         form_get(marks, "2"),
                                         form_get(difficulty, "Medium"),
                                         form_get(cognitive_level, "Understand"),
                                         strip(co), strip(po))
             /\ logs' = add_log(session.user_id)
             /\ req' = r
             /\ flash' = "Question updated."
             /\ paper' = <<>>
             /\ UNCHANGED <<hseq, subjects, modules, topics, qseq, users, session>>

(***************************************************************************)
(* Excel import.  A sheet is a sequence of rows as pandas hands them over: *)
(* a cell of question_text is [kind |-> "absent"] (the sheet has no such   *)
(* column), [kind |-> "nan"] (the cell is blank) or [kind |-> "str", s].   *)
(***************************************************************************)
\* str(row.get("question_text", "")) and str(row.get("co", ""))
py_str(cell) ==
    CASE cell.kind = "absent" -> <<>>
      [] cell.kind = "nan" -> <<"n", "a", "n">>
      [] OTHER -> cell.s

\* str(row.get(name, default)) for the columns that hold plain words
py_str_word(cell, default) ==
    IF cell = Absent THEN default ELSE IF cell = NaN THEN "nan" ELSE cell

\* int(row.get("marks", 2)) raises ValueError: a blank cell (NaN) and a cell that
\* holds no number
int_raises(cell) == cell \in {NaN, "x"}

\* int(row.get("marks", 2)) otherwise
py_int(cell) == IF cell = Absent THEN "2" ELSE cell

\* mutant of duplicate_anywhere: the check looks at the fallback topic only
duplicate_in_fallback_topic(qs, question_text) ==
    \E q \in qs : q.question_text = question_text /\ q.topic_id = 1

\* "Basic duplicate skip" of the import: SELECT id FROM questions WHERE question_text=?
duplicate_anywhere(qs, question_text) ==
    \E q \in qs : q.question_text = question_text

\* mutant of import_row: the test "if not qt: continue" is missing
import_row_keeps_blank(row, st) ==
    LET qt == strip(py_str(row.question_text))
    IN  IF duplicate_anywhere(st.questions, qt) THEN st
        ELSE IF int_raises(row.marks) THEN [st EXCEPT !.raised = TRUE]
        ELSE [st EXCEPT
                !.questions = @ \cup
                    {Question(st.qseq + 1, 1, qt, py_int(row.marks),
                              py_str_word(row.difficulty, "Medium"),
                              py_str_word(row.cognitive_level, "Understand"),
                              strip(py_str(row.co)), strip(py_str(row.po)), NULL)},
                !.qseq = @ + 1]

\* mutant of import_row: the row is attached to topic 2
import_row_to_topic_2(row, st) ==
    LET qt == strip(py_str(row.question_text))
    IN  IF qt = <<>> THEN st
        ELSE IF duplicate_anywhere(st.questions, qt) THEN st
        ELSE IF int_raises(row.marks) THEN [st EXCEPT !.raised = TRUE]
        ELSE [st EXCEPT
                !.questions = @ \cup
                    {Question(st.qseq + 1, 2, qt, py_int(row.marks),
                              py_str_word(row.difficulty, "Medium"),
                              py_str_word(row.cognitive_level, "Understand"),
                              strip(py_str(row.co)), strip(py_str(row.po)), NULL)},
                !.qseq = @ + 1]

\* one turn of the loop over df.iterrows(); st is [questions, qseq, raised], the
\* rows and the id counter as the open transaction sees them
import_row(row, st) ==
    LET qt == strip(py_str(row.question_text))
    IN  IF qt = <<>> THEN st
        ELSE IF duplicate_anywhere(st.questions, qt) THEN st
        ELSE IF int_raises(row.marks) THEN [st EXCEPT !.raised = TRUE]
        ELSE [st EXCEPT
                !.questions = @ \cup
                    {Question(st.qseq + 1, 1, qt, py_int(row.marks),
                              py_str_word(row.difficulty, "Medium"),
                              py_str_word(row.cognitive_level, "Understand"),
                              strip(py_str(row.co)), strip(py_str(row.po)), NULL)},
                !.qseq = @ + 1]

\* for _, row in df.iterrows(): ... ; the loop ends at the first row that raises
RECURSIVE import_rows(_, _)
import_rows(rows, st) ==
    IF rows = <<>> \/ st.raised THEN st
    ELSE import_rows(Tail(rows), import_row(Head(rows), st))

\* mutant of import_excel: conn.commit() follows each INSERT, so the rows before the
\* one that raises stay
import_excel_commit_each(rows) ==
    LET r == [op |-> "import", rows |-> rows]
        st == import_rows(rows, [questions |-> questions, qseq |-> qseq, raised |-> FALSE])
    IN  IF ~logged_in THEN refused(r, "Please login to continue.")
        ELSE IF ~is_admin THEN refused(r, "Admin access required.")
        ELSE /\ st.qseq <= MaxQuestions
             /\ logs < MaxLogs
             /\ questions' = st.questions
             /\ qseq' = st.qseq
             /\ logs' = IF st.raised THEN logs ELSE add_log(session.user_id)
             /\ req' = r
             /\ flash' = IF st.raised THEN "Internal Server Error"
                         ELSE "Questions imported successfully from Excel!"
             /\ paper' = <<>>
             /\ UNCHANGED <<hseq, subjects, modules, topics, users, session>>

\* POST /import-excel with a sheet of the given rows
import_excel(rows) ==
    LET r == [op |-> "import", rows |-> rows]
        st == import_rows(rows, [questions |-> questions, qseq |-> qseq, raised |-> FALSE])
    IN  IF ~logged_in THEN refused(r, "Please login to continue.")
        ELSE IF ~is_admin THEN refused(r, "Admin access required.")
        ELSE IF st.raised
             \* the exception leaves the handler before conn.commit(): the open
             \* transaction is rolled back and the request ends in a server error
             THEN refused(r, "Internal Server Error")
        ELSE /\ st.qseq <= MaxQuestions
             /\ logs < MaxLogs
             /\ questions' = st.questions
             /\ qseq' = st.qseq
             /\ logs' = add_log(session.user_id)
             /\ req' = r
             /\ flash' = "Questions imported successfully from Excel!"
             /\ paper' = <<>>
             /\ UNCHANGED <<hseq, subjects, modules, topics, users, session>>

(***************************************************************************)
(* Paper generation.  A difficulty_distribution is a dict: a sequence of   *)
(* [diff, count] with pairwise different diff, in insertion order.         *)
(***************************************************************************)
\* mutant of select_rows: the WHERE clause forgets the subject
select_rows_any_subject(subject_id, diff) ==
    {q \in questions :
        /\ q.difficulty = diff
        /\ \E t \in topics, m \in modules, s \in subjects :
              q.topic_id = t.id /\ t.module_id = m.id /\ m.subject_id = s}

\* mutant of select_rows: the subjects table is not joined
select_rows_without_subjects(subject_id, diff) ==
    {q \in questions :
        /\ q.difficulty = diff
        /\ \E t \in topics, m \in modules :
              q.topic_id = t.id /\ t.module_id = m.id /\ m.subject_id = subject_id}

\* SELECT q.* FROM questions q JOIN topics t ON q.topic_id = t.id
\* JOIN modules m ON t.module_id = m.id JOIN subjects s ON m.subject_id = s.id
\* WHERE s.id = ? AND q.difficulty = ?
select_rows(subject_id, diff) ==
    {q \in questions :
        /\ q.difficulty = diff
        /\ \E t \in topics, m \in modules :
              /\ q.topic_id = t.id
              /\ t.module_id = m.id
              /\ m.subject_id = subject_id
              /\ subject_id \in subjects}

\* mutant of shuffle: the rows stay in the order of their ids, as without a shuffle
shuffle_in_id_order(rows) ==
    {p \in [1..Cardinality(rows) -> rows] : \A i, j \in DOMAIN p : i < j => p[i].id < p[j].id}

\* mutant of shuffle: draws with replacement, as random.choices would
shuffle_with_repeats(rows) == [1..Cardinality(rows) -> rows]

\* random.shuffle(rows): every order of the rows
shuffle(rows) ==
    {p \in [1..Cardinality(rows) -> rows] : \A i, j \in DOMAIN p : p[i] = p[j] => i = j}

\* mutant of py_slice: rows[:count + 1]
py_slice_one_more(rows, count) ==
    IF count + 1 >= 0
    THEN SubSeq(rows, 1, Min(count + 1, Len(rows)))
    ELSE SubSeq(rows, 1, Max(Len(rows) + count + 1, 0))

\* rows[:count], a negative count counting from the end
py_slice(rows, count) ==
    IF count >= 0
    THEN SubSeq(rows, 1, Min(count, Len(rows)))
    ELSE SubSeq(rows, 1, Max(Len(rows) + count, 0))

\* mutant of band_turn: the test "if count <= 0: continue" is missing
band_turn_no_skip(subject_id, d, paper_questions) ==
    {paper_questions \o py_slice(rows, d.count) :
        rows \in shuffle(select_rows(subject_id, d.diff))}

\* mutant of band_turn: the taken rows are put in front of the paper
band_turn_prepend(subject_id, d, paper_questions) ==
    IF d.count <= 0
    THEN {paper_questions}
    ELSE {py_slice(rows, d.count) \o paper_questions :
            rows \in shuffle(select_rows(subject_id, d.diff))}

\* the body of the loop over difficulty_distribution.items(): the values
\* paper_questions may have after the turn for d
band_turn(subject_id, d, paper_questions) ==
    IF d.count <= 0
    THEN {paper_questions}
    ELSE {paper_questions \o py_slice(rows, d.count) :
            rows \in shuffle(select_rows(subject_id, d.diff))}

\* generate_question_set(subject_id, total_questions, difficulty_distribution): the
\* papers it may return, acc being the values of paper_questions so far
RECURSIVE generate_from(_, _, _)
generate_from(subject_id, dist, acc) ==
    IF dist = <<>> THEN acc
    ELSE generate_from(subject_id, Tail(dist),
                       UNION {band_turn(subject_id, Head(dist), p) : p \in acc})

generate_question_set(subject_id, dist) == generate_from(subject_id, dist, {<<>>})

\* mutant of generate_question_set_call: the questions put on a paper are used up
generate_question_set_call_consuming(subject_id, dist) ==
    /\ paper' \in generate_from(subject_id, dist, {<<>>})
    /\ questions' = questions \ {paper'[i] : i \in DOMAIN paper'}
    /\ req' = [op |-> "generate", subject_id |-> subject_id, dist |-> dist]
    /\ flash' = ""
    /\ UNCHANGED <<hseq, subjects, modules, topics, qseq, users, logs, session>>

\* a call of generate_question_set
generate_question_set_call(subject_id, dist) ==
    /\ paper' \in generate_question_set(subject_id, dist)
    /\ req' = [op |-> "generate", subject_id |-> subject_id, dist |-> dist]
    /\ flash' = ""
    /\ UNCHANGED <<hseq, subjects, modules, topics, questions, qseq, users, logs, session>>

\* POST /generate-paper
generate_paper(subject_id, easy_q, med_q, hard_q) ==
    LET dist == <<[diff |-> "Easy", count |-> easy_q],
                  [diff |-> "Medium", count |-> med_q],
                  [diff |-> "Hard", count |-> hard_q]>>
        r == [op |-> "generate_paper", subject_id |-> subject_id, dist |-> dist]
    IN  IF ~logged_in THEN refused(r, "Please login to continue.")
        ELSE /\ paper' \in generate_question_set(subject_id, dist)
             /\ req' = r
             \* subject['code'] of the missing row of an unknown subject raises
             /\ flash' = IF subject_id \in subjects THEN "" ELSE "Internal Server Error"
             /\ UNCHANGED <<hseq, subjects, modules, topics, questions, qseq, users, logs, session>>

(***************************************************************************)
(* The requests of the model.                                              *)
(***************************************************************************)
TopicIds == {1, 2}
SubjectIdsOfInit == {1, 2}
QuestionIds == 1..MaxQuestions

\* question texts as typed: blank, "a", "a " and "b"
RawTexts == {<<" ">>, <<"a">>, <<"a", " ">>, <<"b">>}

NoText == <<>>

NoCell == [kind |-> "absent", s |-> <<>>]

\* cells of the question_text column: blank characters, "a" and " b"
TextCells ==
    {[kind |-> "str", s |-> <<" ">>], [kind |-> "str", s |-> <<"a">>],
     [kind |-> "str", s |-> <<" ", "b">>]}

\* the rows of a sheet: the marks column holds 3, or "x" beside the text "a"
SheetRows ==
    {r \in [question_text : TextCells, marks : {"3", "x"}, difficulty : {Absent},
            cognitive_level : {Absent}, co : {NoCell}, po : {NoCell}] :
        r.marks = "x" => r.question_text.s = <<"a">>}

\* the rows of a sheet that has no question_text column
NoTextRows ==
    [question_text : {NoCell}, marks : {"3"}, difficulty : {Absent},
     cognitive_level : {Absent}, co : {NoCell}, po : {NoCell}]

\* a column is missing from every row of a sheet or from none
Sheets ==
    UNION {[1..n -> SheetRows] \cup [1..n -> NoTextRows] : n \in 0..MaxRows}

Next ==
    \/ \E u \in users : login(u) /\ UNCHANGED <<inflight, adding>>
    \/ \E t \in TopicIds, x \in RawTexts :
            questions_add(t, x, Absent, Absent, Absent, NoText, NoText) /\ UNCHANGED <<inflight, adding>>
    \/ \E t \in TopicIds, q \in QuestionIds : questions_delete(t, q) /\ UNCHANGED <<inflight, adding>>
    \/ \E q \in QuestionIds, x \in RawTexts :
            edit_question(q, x, Absent, Absent, Absent, NoText, NoText) /\ UNCHANGED <<inflight, adding>>
    \/ \E rows \in Sheets : import_excel(rows) /\ UNCHANGED <<inflight, adding>>

Spec == Init /\ [][Next]_vars

(***************************************************************************)
(* The requests of the sampler's specification: questions of the three     *)
(* bands are added by hand and papers are generated.                       *)
(***************************************************************************)
Bands == {"Easy", "Medium", "Hard"}
PaperTexts == {<<"a">>, <<"b">>}

\* easy_q, med_q and hard_q of the form: negative, zero or MaxCount
Counts == {-1, 0, MaxCount}

\* the dicts of two bands with positive counts, in either order, the second band
\* with the largest quota
Dists ==
    {<<[diff |-> a, count |-> m], [diff |-> b, count |-> MaxCount]>> :
        a \in Bands, b \in Bands, m \in {1, MaxCount}} \
    {d \in [1..2 -> [diff : Bands, count : {1, MaxCount}]] : d[1].diff = d[2].diff}

NextPaper ==
    \/ \E u \in {v \in users : v.role = "faculty"} : login(u) /\ UNCHANGED <<inflight, adding>>
    \/ \E t \in TopicIds, x \in PaperTexts, d \in {"Easy", Absent, "Hard"} :
            questions_add(t, x, Absent, d, Absent, NoText, NoText) /\ UNCHANGED <<inflight, adding>>
    \/ \E e \in Counts, m \in Counts, h \in Counts : generate_paper(1, e, m, h) /\ UNCHANGED <<inflight, adding>>
    \/ \E dist \in Dists : generate_question_set_call(1, dist) /\ UNCHANGED <<inflight, adding>>

SpecPaper == Init /\ [][NextPaper]_vars

(***************************************************************************)
(* Subjects.                                                               *)
(***************************************************************************)
\* POST /subjects, action=delete: DELETE FROM subjects WHERE id=?
subjects_delete(subject_id) ==
    LET r == [op |-> "delete_subject", subject_id |-> subject_id]
    IN  IF ~logged_in THEN refused(r, "Please login to continue.")
        ELSE IF ~is_admin THEN refused(r, "Admin access required.")
        ELSE /\ logs < MaxLogs
             /\ subjects' = subjects \ {subject_id}
             /\ logs' = add_log(session.user_id)
             /\ req' = r
             /\ flash' = "Subject deleted."
             /\ paper' = <<>>
             /\ UNCHANGED <<hseq, modules, topics, questions, qseq, users, session>>

\* POST /subjects with action=add, code and name given
subjects_add ==
    LET r == [op |-> "add_subject"]
    IN  IF ~logged_in THEN refused(r, "Please login to continue.")
        ELSE IF ~is_admin THEN refused(r, "Admin access required.")
        ELSE /\ hseq.subjects < MaxHier
             /\ logs < MaxLogs
             /\ subjects' = subjects \cup {hseq.subjects + 1}
             /\ hseq' = [hseq EXCEPT !.subjects = @ + 1]
             /\ logs' = add_log(session.user_id)
             /\ req' = r
             /\ flash' = "Subject added."
             /\ paper' = <<>>
             /\ UNCHANGED <<modules, topics, questions, qseq, users, session>>

\* POST /subjects/<subject_id>/modules with action=add, module_no and title given
modules_add(subject_id) ==
    LET r == [op |-> "add_module", subject_id |-> subject_id]
    IN  IF ~logged_in THEN refused(r, "Please login to continue.")
        ELSE IF ~is_admin THEN refused(r, "Admin access required.")
        ELSE IF subject_id \notin subjects THEN refused(r, "Subject not found.")
        ELSE /\ hseq.modules < MaxHier
             /\ logs < MaxLogs
             /\ modules' = modules \cup {[id |-> hseq.modules + 1, subject_id |-> subject_id]}
             /\ hseq' = [hseq EXCEPT !.modules = @ + 1]
             /\ logs' = add_log(session.user_id)
             /\ req' = r
             /\ flash' = "Module added."
             /\ paper' = <<>>
             /\ UNCHANGED <<subjects, topics, questions, qseq, users, session>>

\* POST /subjects/<subject_id>/modules with action=delete
modules_delete(subject_id, module_id) ==
    LET r == [op |-> "delete_module", subject_id |-> subject_id, module_id |-> module_id]
    IN  IF ~logged_in THEN refused(r, "Please login to continue.")
        ELSE IF ~is_admin THEN refused(r, "Admin access required.")
        ELSE IF subject_id \notin subjects THEN refused(r, "Subject not found.")
        ELSE /\ logs < MaxLogs
             /\ modules' = {m \in modules : m.id # module_id}
             /\ logs' = add_log(session.user_id)
             /\ req' = r
             /\ flash' = "Module deleted."
             /\ paper' = <<>>
             /\ UNCHANGED <<hseq, subjects, topics, questions, qseq, users, session>>

\* SELECT m.* FROM modules m JOIN subjects s ON m.subject_id = s.id WHERE m.id=?
module_found(module_id) ==
    \E m \in modules : m.id = module_id /\ m.subject_id \in subjects

\* POST /modules/<module_id>/topics with action=add, name given
topics_add(module_id) ==
    LET r == [op |-> "add_topic", module_id |-> module_id]
    IN  IF ~logged_in THEN refused(r, "Please login to continue.")
        ELSE IF ~is_admin THEN refused(r, "Admin access required.")
        ELSE IF ~module_found(module_id) THEN refused(r, "Module not found.")
        ELSE /\ hseq.topics < MaxHier
             /\ logs < MaxLogs
             /\ topics' = topics \cup {[id |-> hseq.topics + 1, module_id |-> module_id]}
             /\ hseq' = [hseq EXCEPT !.topics = @ + 1]
             /\ logs' = add_log(session.user_id)
             /\ req' = r
             /\ flash' = "Topic added."
             /\ paper' = <<>>
             /\ UNCHANGED <<subjects, modules, questions, qseq, users, session>>

\* POST /modules/<module_id>/topics with action=delete
topics_delete(module_id, topic_id) ==
    LET r == [op |-> "delete_topic", module_id |-> module_id, topic_id |-> topic_id]
    IN  IF ~logged_in THEN refused(r, "Please login to continue.")
        ELSE IF ~is_admin THEN refused(r, "Admin access required.")
        ELSE IF ~module_found(module_id) THEN refused(r, "Module not found.")
        ELSE /\ logs < MaxLogs
             /\ topics' = {t \in topics : t.id # topic_id}
             /\ logs' = add_log(session.user_id)
             /\ req' = r
             /\ flash' = "Topic deleted."
             /\ paper' = <<>>
             /\ UNCHANGED <<hseq, subjects, modules, questions, qseq, users, session>>

(***************************************************************************)
(* The requests of the specification of unknown subjects: subjects are     *)
(* deleted and papers are asked for subjects 1, 2 and 3, which never was.  *)
(***************************************************************************)
AskedSubjects == {1, 2, 3}

NextSubject ==
    \/ \E u \in users : login(u) /\ UNCHANGED <<inflight, adding>>
    \/ \E t \in TopicIds, d \in {"Easy", Absent} :
            questions_add(t, <<"a">>, Absent, d, Absent, NoText, NoText) /\ UNCHANGED <<inflight, adding>>
    \/ \E s \in SubjectIdsOfInit : subjects_delete(s) /\ UNCHANGED <<inflight, adding>>
    \/ \E s \in AskedSubjects, e \in {0, MaxCount}, m \in {0, MaxCount} :
            generate_paper(s, e, m, 0) /\ UNCHANGED <<inflight, adding>>
    \/ \E s \in AskedSubjects, n \in {1, MaxCount} :
            generate_question_set_call(s, <<[diff |-> "Medium", count |-> n],
                                            [diff |-> "Easy", count |-> n]>>) /\ UNCHANGED <<inflight, adding>>

SpecSubject == Init /\ [][NextSubject]_vars

(***************************************************************************)
(* generate_question_set step by step: each call keeps its own cursor and  *)
(* its own list paper_questions, and reads the store once per band.        *)
(***************************************************************************)
\* the call of worker w is under way
running(w) == inflight[w].pc = "running"

\* entry of generate_question_set: conn = get_db(); paper_questions = []
gen_start(w, subject_id, dist) ==
    /\ ~running(w)
    /\ inflight' = [inflight EXCEPT ![w] =
                        [pc |-> "running", subject_id |-> subject_id, dist |-> dist,
                         i |-> 1, paper_questions |-> <<>>]]
    /\ UNCHANGED <<hseq, subjects, modules, topics, questions, qseq, users, logs, session,
                   req, flash, paper, adding>>

\* mutant of gen_band: paper_questions is one list shared by the calls under way
gen_band_shared(w) ==
    /\ running(w)
    /\ inflight[w].i <= Len(inflight[w].dist)
    /\ \E p \in band_turn(inflight[w].subject_id, inflight[w].dist[inflight[w].i],
                          inflight[w].paper_questions) :
            inflight' = [v \in Workers |->
                            IF v = w
                            THEN [inflight[v] EXCEPT !.i = @ + 1, !.paper_questions = p]
                            ELSE IF running(v)
                                 THEN [inflight[v] EXCEPT !.paper_questions = p]
                                 ELSE inflight[v]]
    /\ UNCHANGED <<hseq, subjects, modules, topics, questions, qseq, users, logs, session,
                   req, flash, paper, adding>>

\* one turn of the loop of the call of worker w: the SELECT of the band, the shuffle
\* and the extend of its own paper_questions
gen_band(w) ==
    /\ running(w)
    /\ inflight[w].i <= Len(inflight[w].dist)
    /\ \E p \in band_turn(inflight[w].subject_id, inflight[w].dist[inflight[w].i],
                          inflight[w].paper_questions) :
            inflight' = [inflight EXCEPT ![w].i = @ + 1, ![w].paper_questions = p]
    /\ UNCHANGED <<hseq, subjects, modules, topics, questions, qseq, users, logs, session,
                   req, flash, paper, adding>>

\* conn.close(); return paper_questions
gen_return(w) ==
    /\ running(w)
    /\ inflight[w].i > Len(inflight[w].dist)
    /\ paper' = inflight[w].paper_questions
    /\ req' = [op |-> "generate", subject_id |-> inflight[w].subject_id,
               dist |-> inflight[w].dist]
    /\ flash' = ""
    /\ inflight' = [inflight EXCEPT ![w] = Idle]
    /\ UNCHANGED <<hseq, subjects, modules, topics, questions, qseq, users, logs, session, adding>>

\* no call of generate_question_set is under way
quiet == \A w \in Workers : ~running(w)

ConcDists ==
    { <<[diff |-> "Easy", count |-> 1], [diff |-> "Hard", count |-> MaxCount]>>,
      <<[diff |-> "Hard", count |-> 1]>> }

\* the store is filled while no call is under way; then calls start, read their
\* bands and return in any interleaving
NextConc ==
    \/ \E u \in {v \in users : v.role = "faculty"} : quiet /\ login(u) /\ UNCHANGED <<inflight, adding>>
    \/ \E t \in TopicIds, x \in {<<"a">>, <<"b">>}, d \in {"Easy", "Hard"} :
            quiet /\ (t = 2 => x = <<"a">> /\ d = "Hard")
                  /\ questions_add(t, x, Absent, d, Absent, NoText, NoText)
                  /\ UNCHANGED <<inflight, adding>>
    \/ \E w \in Workers, dist \in ConcDists : gen_start(w, 1, dist)
    \/ \E w \in Workers : gen_band(w)
    \/ \E w \in Workers : gen_return(w)

SpecConc == Init /\ [][NextConc]_vars

(***************************************************************************)
(* Requests whose marks, difficulty and cognitive level vary.              *)
(***************************************************************************)
\* the three fields as a form sends them: all left out, all in their ranges, all
\* outside them
FieldForms ==
    {[marks |-> Absent, difficulty |-> Absent, cognitive_level |-> Absent],
     [marks |-> "5", difficulty |-> "Hard", cognitive_level |-> "Apply"],
     [marks |-> "0", difficulty |-> "Tough", cognitive_level |-> "Recall"]}

\* the rows of a sheet with the same three choices
FieldRows ==
    {[question_text |-> [kind |-> "str", s |-> <<"b">>], marks |-> f.marks,
      difficulty |-> f.difficulty, cognitive_level |-> f.cognitive_level,
      co |-> NoCell, po |-> NoCell] : f \in FieldForms}
    \cup
    \* a row whose difficulty and cognitive level cells are blank
    {[question_text |-> [kind |-> "str", s |-> <<"b">>], marks |-> "3",
      difficulty |-> NaN, cognitive_level |-> NaN, co |-> NoCell, po |-> NoCell]}

NextFields ==
    \/ \E u \in users : login(u) /\ UNCHANGED <<inflight, adding>>
    \/ \E f \in FieldForms :
            questions_add(1, <<"a">>, f.marks, f.difficulty, f.cognitive_level,
                          NoText, NoText) /\ UNCHANGED <<inflight, adding>>
    \/ \E q \in QuestionIds, f \in FieldForms :
            edit_question(q, <<"a">>, f.marks, f.difficulty, f.cognitive_level,
                          NoText, NoText) /\ UNCHANGED <<inflight, adding>>
    \/ \E row \in FieldRows : import_excel(<<row>>) /\ UNCHANGED <<inflight, adding>>

SpecFields == Init /\ [][NextFields]_vars

(***************************************************************************)
(* The add branch of questions() step by step: the duplicate SELECT and    *)
(* the INSERT are two statements on a connection of the request's own, and *)
(* requests of other workers may run between them.                         *)
(***************************************************************************)
\* the request of worker w up to and including the duplicate SELECT
add_check(w, topic_id, text) ==
    LET r == [op |-> "add", topic_id |-> topic_id, question_text |-> text,
              marks |-> Absent, difficulty |-> Absent, cognitive_level |-> Absent,
              co |-> NoText, po |-> NoText]
        question_text == strip(text)
    IN  /\ adding[w].pc = "idle"
        /\ IF ~logged_in
           THEN refused(r, "Please login to continue.") /\ UNCHANGED <<inflight, adding>>
           ELSE IF topic_subjects(topic_id) = {}
           THEN refused(r, "Topic not found.") /\ UNCHANGED <<inflight, adding>>
           ELSE IF question_text = <<>>
           THEN refused(r, "") /\ UNCHANGED <<inflight, adding>>
           ELSE /\ adding' = [adding EXCEPT ![w] =
                                [pc |-> "checked", topic_id |-> topic_id,
                                 question_text |-> question_text,
                                 user_id |-> session.user_id,
                                 duplicate |-> duplicate_in_topic(questions, question_text,
                                                                  topic_id)]]
                /\ UNCHANGED <<hseq, subjects, modules, topics, questions, qseq, users, logs,
                               session, req, flash, paper, inflight>>

\* the rest of the request of worker w: the flash of a duplicate found by its SELECT,
\* or the INSERT, the commit, the flash and the log row
add_insert(w) ==
    LET a == adding[w]
        r == [op |-> "add", topic_id |-> a.topic_id, question_text |-> a.question_text,
              marks |-> Absent, difficulty |-> Absent, cognitive_level |-> Absent,
              co |-> NoText, po |-> NoText]
    IN  /\ a.pc = "checked"
        /\ adding' = [adding EXCEPT ![w] = NotAdding]
        /\ IF a.duplicate
           THEN refused(r, "Duplicate question found! Please add a different question.")
           ELSE /\ qseq < MaxQuestions
                /\ logs < MaxLogs
                /\ questions' = questions \cup
                        {Question(qseq + 1, a.topic_id, a.question_text, "2", "Medium",
                                  "Understand", NoText, NoText, a.user_id)}
                /\ qseq' = qseq + 1
                /\ logs' = add_log(a.user_id)
                /\ req' = r
                /\ flash' = "Question added."
                /\ paper' = <<>>
                /\ UNCHANGED <<hseq, subjects, modules, topics, users, session>>
        /\ UNCHANGED inflight

NextAddRace ==
    \/ \E u \in users : login(u) /\ UNCHANGED <<inflight, adding>>
    \/ \E w \in Workers, t \in TopicIds, x \in {<<" ">>, <<"a">>, <<"a", " ">>} :
            add_check(w, t, x)
    \/ \E w \in Workers : add_insert(w)

SpecAddRace == Init /\ [][NextAddRace]_vars

(***************************************************************************)
(* Question edits committed between the band reads of a call of            *)
(* generate_question_set.                                                  *)
(***************************************************************************)
\* one call, of worker 1, asks for the Easy band and then for the Hard band, while
\* requests that add questions and edit them are handled
NextEditRace ==
    \/ \E u \in {v \in users : v.role = "faculty"} :
            login(u) /\ UNCHANGED <<inflight, adding>>
    \/ \E x \in PaperTexts, d \in {"Easy", "Hard"} :
            questions_add(1, x, Absent, d, Absent, NoText, NoText)
                /\ UNCHANGED <<inflight, adding>>
    \/ \E q \in QuestionIds, d \in {"Easy", "Hard"} :
            edit_question(q, <<"a">>, Absent, d, Absent, NoText, NoText)
                /\ UNCHANGED <<inflight, adding>>
    \/ \E n \in {1, MaxCount} :
            gen_start(1, 1, <<[diff |-> "Easy", count |-> 1], [diff |-> "Hard", count |-> n]>>)
    \/ gen_band(1)
    \/ gen_return(1)

SpecEditRace == Init /\ [][NextEditRace]_vars

(***************************************************************************)
(* The hierarchy: subjects, modules and topics are created and deleted     *)
(* while questions are added and papers are drawn.                         *)
(***************************************************************************)
HierIds == 1..MaxHier

\* a sheet of one row with the text "b"
OneRowSheet ==
    <<[question_text |-> [kind |-> "str", s |-> <<"b">>], marks |-> "3",
       difficulty |-> Absent, cognitive_level |-> Absent, co |-> NoCell, po |-> NoCell]>>

NextHier ==
    \/ \E u \in users : login(u) /\ UNCHANGED <<inflight, adding>>
    \/ \E t \in HierIds :
            questions_add(t, <<"a">>, Absent, Absent, Absent, NoText, NoText)
                /\ UNCHANGED <<inflight, adding>>
    \/ import_excel(OneRowSheet) /\ UNCHANGED <<inflight, adding>>
    \/ subjects_add /\ UNCHANGED <<inflight, adding>>
    \/ \E s \in HierIds : modules_add(s) /\ UNCHANGED <<inflight, adding>>
    \/ \E m \in HierIds : topics_add(m) /\ UNCHANGED <<inflight, adding>>
    \/ \E s \in HierIds : subjects_delete(s) /\ UNCHANGED <<inflight, adding>>
    \/ \E s \in HierIds, m \in HierIds :
            modules_delete(s, m) /\ UNCHANGED <<inflight, adding>>
    \/ \E m \in HierIds, t \in HierIds :
            topics_delete(m, t) /\ UNCHANGED <<inflight, adding>>
    \/ \E s \in HierIds :
            generate_question_set_call(s, <<[diff |-> "Medium", count |-> MaxCount]>>)
                /\ UNCHANGED <<inflight, adding>>

SpecHier == Init /\ [][NextHier]_vars

(***************************************************************************)
(* Sessions: every route is asked from every session, before a login,      *)
(* after it and after a logout.                                            *)
(***************************************************************************)
NextAuth ==
    \/ \E u \in users : login(u) /\ UNCHANGED <<inflight, adding>>
    \/ logout /\ UNCHANGED <<inflight, adding>>
    \/ \E role \in {"faculty", "admin"} : create_user(role) /\ UNCHANGED <<inflight, adding>>
    \/ subjects_add /\ UNCHANGED <<inflight, adding>>
    \/ subjects_delete(2) /\ UNCHANGED <<inflight, adding>>
    \/ modules_add(1) /\ UNCHANGED <<inflight, adding>>
    \/ modules_delete(1, 2) /\ UNCHANGED <<inflight, adding>>
    \/ topics_add(1) /\ UNCHANGED <<inflight, adding>>
    \/ topics_delete(1, 2) /\ UNCHANGED <<inflight, adding>>
    \/ import_excel(OneRowSheet) /\ UNCHANGED <<inflight, adding>>
    \/ questions_add(1, <<"a">>, Absent, Absent, Absent, NoText, NoText)
            /\ UNCHANGED <<inflight, adding>>
    \/ \E q \in QuestionIds : questions_delete(1, q) /\ UNCHANGED <<inflight, adding>>
    \/ \E q \in QuestionIds :
            edit_question(q, <<"c">>, Absent, Absent, Absent, NoText, NoText)
                /\ UNCHANGED <<inflight, adding>>
    \/ generate_paper(1, 0, MaxCount, 0) /\ UNCHANGED <<inflight, adding>>

SpecAuth == Init /\ [][NextAuth]_vars

(***************************************************************************)
(* The claims about the paper sampler, checked under SpecPaper.            *)
(***************************************************************************)
\* the request handled last ran generate_question_set
generated ==
    /\ req.op \in {"generate", "generate_paper"}
    /\ flash # "Please login to continue."

\* the eligible pool of a band: the stored questions of that difficulty whose topic
\* belongs to a module of the subject
EligiblePool(subject_id, band) ==
    {q \in questions :
        /\ q.difficulty = band
        /\ subject_id \in subjects
        /\ \E t \in topics : /\ t.id = q.topic_id
                              /\ \E m \in modules : m.id = t.module_id /\ m.subject_id = subject_id}

pool_size(i) == Cardinality(EligiblePool(req.subject_id, req.dist[i].diff))

\* the positions of the paper that hold a question of the band
of_band(band) == {i \in DOMAIN paper : paper[i].difficulty = band}

RECURSIVE sum_counts(_)
sum_counts(dist) == IF dist = <<>> THEN 0 ELSE Head(dist).count + sum_counts(Tail(dist))

\* C1: for every band with quota > 0 the paper holds min(quota, pool size) questions
\* of that band; a pool smaller than the quota is returned whole, without an error.
C1_BandCount ==
    generated =>
        \A i \in DOMAIN req.dist :
            req.dist[i].count > 0 =>
                /\ Cardinality(of_band(req.dist[i].diff)) = Min(req.dist[i].count, pool_size(i))
                /\ pool_size(i) <= req.dist[i].count =>
                        /\ {paper[j] : j \in of_band(req.dist[i].diff)}
                                = EligiblePool(req.subject_id, req.dist[i].diff)
                        /\ flash = ""

\* a band was under-filled from a pool that is not empty
C1_Witness ==
    /\ generated
    /\ \E i \in DOMAIN req.dist :
            /\ 0 < pool_size(i)
            /\ pool_size(i) < req.dist[i].count
            /\ Cardinality(of_band(req.dist[i].diff)) = pool_size(i)

\* C2: a paper holds only questions of the eligible pools of the requested bands of
\* the subject, and no question identifier twice, in every call of any sequence.
C2_SubsetNoDuplicate ==
    generated =>
        /\ \A i \in DOMAIN paper :
                \E k \in DOMAIN req.dist :
                    paper[i] \in EligiblePool(req.subject_id, req.dist[k].diff)
        /\ \A i, j \in DOMAIN paper : paper[i].id = paper[j].id => i = j

\* a paper of two questions drawn while the other subject holds a question too
C2_Witness ==
    /\ generated
    /\ Len(paper) = 2
    /\ \E q \in questions : q.topic_id = 2

\* C3: a band whose quota is zero or negative puts no question into the paper.
C3_SkippedBand ==
    generated =>
        \A i \in DOMAIN req.dist :
            req.dist[i].count <= 0 => of_band(req.dist[i].diff) = {}

\* a negative quota on a band whose pool holds two questions
C3_Witness ==
    /\ generated
    /\ \E i \in DOMAIN req.dist : req.dist[i].count < 0 /\ pool_size(i) = 2

\* C4: with non-negative quotas the paper is no longer than their sum, and as long
\* as the sum iff every band's pool holds at least the requested count.
C4_Length ==
    (generated /\ \A i \in DOMAIN req.dist : req.dist[i].count >= 0) =>
        /\ Len(paper) <= sum_counts(req.dist)
        /\ Len(paper) = sum_counts(req.dist)
                <=> \A i \in DOMAIN req.dist : pool_size(i) >= req.dist[i].count

\* the handler filled a quota of two while the other subject holds a question of
\* the same band
C4_Witness ==
    /\ req.op = "generate_paper"
    /\ \A i \in DOMAIN req.dist : req.dist[i].count >= 0
    /\ Len(paper) = 2
    /\ sum_counts(req.dist) = 2
    /\ \E q \in questions : q.topic_id = 2 /\ q.difficulty = paper[1].difficulty

\* C5: the paper is the bands' selections in the order of the quota map: a question
\* of a band that comes earlier in the map precedes every question of a later band.
C5_BandOrder ==
    generated =>
        \A i, j \in DOMAIN paper :
            \A k, l \in DOMAIN req.dist :
                (/\ paper[i].difficulty = req.dist[k].diff
                 /\ paper[j].difficulty = req.dist[l].diff
                 /\ k < l) => i < j

\* a map that names Hard before Easy returned a Hard question and then an Easy one
C5_Witness ==
    /\ req.op = "generate"
    /\ req.dist[1].diff = "Hard"
    /\ req.dist[2].diff = "Easy"
    /\ Len(paper) = 2
    /\ paper[1].difficulty = "Hard"
    /\ paper[2].difficulty = "Easy"

\* C6: a call of generate_question_set changes no table, and the paper it returns
\* is one that the store, the subject and the quota map alone allow.
C6_ReadOnly ==
    [][(req'.op \in {"generate", "generate_paper"} /\ flash' # "Please login to continue.") =>
            /\ tables' = tables
            /\ qseq' = qseq
            /\ session' = session
            /\ \A i \in DOMAIN req'.dist :
                    LET pool == EligiblePool(req'.subject_id, req'.dist[i].diff)
                        got == {j \in DOMAIN paper' : paper'[j].difficulty = req'.dist[i].diff}
                    IN  Cardinality(got) =
                            IF req'.dist[i].count <= 0 THEN 0
                            ELSE Min(req'.dist[i].count, Cardinality(pool))]_vars

\* a paper was returned after a log row was written and questions were stored
C6_Witness ==
    /\ req.op = "generate"
    /\ paper # <<>>
    /\ logs > 0
    /\ Cardinality(questions) = MaxQuestions

(***************************************************************************)
(* The claims about ingestion, checked under Spec.                         *)
(***************************************************************************)
Imported == "Questions imported successfully from Excel!"

\* the text of a sheet's row as the import compares and stores it
row_text(row) == strip(py_str(row.question_text))

\* C7: a manual add of a text that is not empty once trimmed inserts one question
\* of that topic and text iff the topic holds no question of that trimmed text.
C7_ManualAddIff ==
    [][(/\ req'.op = "add"
        /\ logged_in
        /\ topic_subjects(req'.topic_id) # {}
        /\ strip(req'.question_text) # <<>>) =>
            LET text == strip(req'.question_text)
                same == {q \in questions :
                            q.topic_id = req'.topic_id /\ q.question_text = text}
                new == questions' \ questions
            IN  /\ (new # {}) <=> (same = {})
                /\ questions \subseteq questions'
                /\ Cardinality(new) <= 1
                /\ \A q \in new : q.topic_id = req'.topic_id /\ q.question_text = text]_vars

\* a text was accepted in one topic while the other topic holds the same text
C7_Witness ==
    /\ req.op = "add"
    /\ flash = "Question added."
    /\ \E q1, q2 \in questions :
            /\ q1.question_text = q2.question_text
            /\ q1.topic_id # q2.topic_id
            /\ q2.id = qseq

\* C8: an import inserts no row whose trimmed text is the text of a question that
\* is in the store already, in any topic, or of an earlier row of the sheet; it
\* skips such a row and still processes the others.
C8_ImportNoDuplicate ==
    [][(req'.op = "import" /\ logged_in /\ is_admin) =>
            LET new == questions' \ questions
                texts == {row_text(req'.rows[i]) : i \in DOMAIN req'.rows} \ {<<>>}
            IN  /\ questions \subseteq questions'
                /\ \A q \in new : ~\E p \in questions : p.question_text = q.question_text
                /\ \A q1, q2 \in new : q1.question_text = q2.question_text => q1 = q2
                /\ flash' = Imported =>
                        \A t \in texts : \E q \in questions' : q.question_text = t]_vars

\* a sheet with "a" and then "b" was imported while topic 2 held a hand-made "a":
\* "a" was skipped and "b" was inserted
C8_Witness ==
    /\ req.op = "import"
    /\ flash = Imported
    /\ Len(req.rows) = 2
    /\ row_text(req.rows[1]) = <<"a">>
    /\ row_text(req.rows[2]) = <<"b">>
    /\ \E q \in questions : q.question_text = <<"a">> /\ q.topic_id = 2
    /\ Cardinality({q \in questions : q.question_text = <<"a">>}) = 1
    /\ \E q \in questions : q.question_text = <<"b">> /\ q.created_by = NULL

\* a question_text that is empty (the default of a missing column) or blank
is_blank(cell) ==
    \/ cell.kind = "absent"
    \/ cell.kind = "str" /\ \A i \in DOMAIN cell.s : cell.s[i] = " "

keeps_row(row) == ~is_blank(row.question_text)

C10_PerTopicUnique ==
    \A q1, q2 \in questions :
        (q1.topic_id = q2.topic_id /\ q1.question_text = q2.question_text) => q1.id = q2.id

\* C11: every stored question has a text that is not empty once trimmed.
C11_NonEmptyText ==
    \A q \in questions : strip(q.question_text) # <<>>

\* C12: an edit or a delete asked by a logged-in user who is no admin, on a question
\* that another user created or that has no creator, leaves that question in the
\* store with every field as it was.
C12_OwnerOrAdmin ==
    [][(/\ req'.op \in {"edit", "delete"}
        /\ logged_in
        /\ session.role # "admin") =>
            \A q \in questions :
                (q.id = req'.question_id /\ q.created_by # session.user_id) =>
                    q \in questions']_vars

\* a faculty user was refused the edit of an imported question, which is still there
C12_Witness ==
    /\ req.op = "edit"
    /\ session.role = "faculty"
    /\ flash = "You do not have permission to edit this question."
    /\ \E q \in questions : q.id = req.question_id /\ q.created_by = NULL

\* C15: a manual add whose text is empty once trimmed reports an error to the caller
\* and leaves the store as it was.
C15_EmptyTextReported ==
    [][(/\ req'.op = "add"
        /\ logged_in
        /\ topic_subjects(req'.topic_id) # {}
        /\ strip(req'.question_text) = <<>>) =>
            /\ flash' # ""
            /\ tables' = tables]_vars

\* C16: no imported question (one without creator) has the text of another stored
\* question, in any topic.
C16_ImportedTextUnique ==
    \A q \in questions :
        q.created_by = NULL =>
            \A p \in questions : p.question_text = q.question_text => p.id = q.id

\* C16 as amended: right after an import, no question that the import inserted has
\* the text of another stored question, in any topic.
C16_UniqueAtImport ==
    [][(req'.op = "import" /\ logged_in /\ is_admin) =>
            \A q \in questions' \ questions :
                \A p \in questions' : p.question_text = q.question_text => p.id = q.id]_vars

\* an import stored "b" in the fallback topic beside a hand-made "a" of topic 1
C16_Witness ==
    /\ req.op = "import"
    /\ flash = Imported
    /\ \E q \in questions : /\ q.created_by = NULL
                             /\ q.question_text = <<"b">>
                             /\ q.id = qseq
    /\ \E q \in questions : /\ q.created_by # NULL
                             /\ q.question_text = <<"a">>
                             /\ q.topic_id = 1

\* C19: every question that an import inserts is attached to topic 1 and has no
\* creator.
C19_FallbackTopic ==
    [][(req'.op = "import" /\ logged_in /\ is_admin) =>
            \A q \in questions' \ questions :
                q.topic_id = 1 /\ q.created_by = NULL]_vars

\* an import stored two questions while topic 2 holds a hand-made one
C19_Witness ==
    /\ req.op = "import"
    /\ flash = Imported
    /\ Cardinality({q \in questions : q.created_by = NULL /\ q.topic_id = 1}) = 2
    /\ \E q \in questions : q.topic_id = 2

\* C20: a manual add that is rejected as a duplicate leaves the question table and
\* the log table as they were.
C20_DuplicateNoEffect ==
    [][(/\ req'.op = "add"
        /\ flash' = "Duplicate question found! Please add a different question.") =>
            /\ questions' = questions
            /\ qseq' = qseq
            /\ logs' = logs]_vars

\* "a " was rejected in a topic that holds "a"
C20_Witness ==
    /\ req.op = "add"
    /\ flash = "Duplicate question found! Please add a different question."
    /\ req.question_text = <<"a", " ">>
    /\ \E q \in questions : q.topic_id = req.topic_id /\ q.question_text = <<"a">>

\* C13: a paper asked for a subject that is not in the store is empty, and the
\* request ends without an exception.
C13_UnknownSubject ==
    (generated /\ req.subject_id \notin subjects) =>
        /\ paper = <<>>
        /\ flash = ""

(***************************************************************************)
(* The claim about calls of generate_question_set under way together,      *)
(* checked under SpecConc.                                                 *)
(***************************************************************************)
\* the positions of the paper p that hold a question of the band
band_positions(p, band) == {i \in DOMAIN p : p[i].difficulty = band}

\* what one call of generate_question_set owes its caller: for each band asked with a
\* quota above zero min(quota, pool) questions of the pool of that band, nothing
\* else, and no question twice
single_call_contract(p, subject_id, dist) ==
    /\ \A k \in DOMAIN dist :
            dist[k].count > 0 =>
                Cardinality(band_positions(p, dist[k].diff))
                    = Min(dist[k].count, Cardinality(EligiblePool(subject_id, dist[k].diff)))
    /\ \A i \in DOMAIN p :
            \E k \in DOMAIN dist :
                dist[k].count > 0 /\ p[i] \in EligiblePool(subject_id, dist[k].diff)
    /\ \A i, j \in DOMAIN p : p[i].id = p[j].id => i = j

\* C14: calls of generate_question_set under way together do not interfere: however
\* their per-band reads interleave on a store that nobody writes, the paper each call
\* returns satisfies the contract of a single call, and no step of a call changes the
\* store.
C14_NoInterference ==
    [][ /\ (\E w \in Workers : running(w)) => tables' = tables
        /\ \A w \in Workers :
                running(w) /\ ~running(w)' =>
                    single_call_contract(paper', inflight[w].subject_id, inflight[w].dist)
      ]_vars

\* two calls are under way, each has read one band into its own list and has a turn
\* or its return still to come, and the two hold different lists
C14_Witness ==
    \E v, w \in Workers :
        /\ v # w
        /\ running(v) /\ running(w)
        /\ inflight[v].i = 2 /\ inflight[w].i = 2
        /\ Len(inflight[v].dist) = 2
        /\ inflight[v].paper_questions # <<>>
        /\ inflight[w].paper_questions # <<>>
        /\ inflight[v].paper_questions # inflight[w].paper_questions

(***************************************************************************)
(* The claims about marks, difficulty and cognitive level, checked under   *)
(* SpecFields.                                                             *)
(***************************************************************************)
Difficulties == {"Easy", "Medium", "Hard"}

CognitiveLevels == {"Remember", "Understand", "Apply", "Analyze", "Evaluate", "Create"}

\* the number a stored marks value stands for
MarksValue == [m \in {"0", "2", "3", "5"} |->
                  CASE m = "0" -> 0 [] m = "2" -> 2 [] m = "3" -> 3 [] OTHER -> 5]

\* C17: every stored question has a difficulty of Easy, Medium or Hard, a cognitive
\* level of the six of the taxonomy and marks above zero, after any sequence of manual
\* adds, imports and edits.
C17_FieldValidity ==
    \A q \in questions :
        /\ q.difficulty \in Difficulties
        /\ q.cognitive_level \in CognitiveLevels
        /\ q.marks \in DOMAIN MarksValue
        /\ MarksValue[q.marks] > 0

\* C18: an edit that leaves out marks, difficulty or cognitive level keeps the stored
\* value of the field it leaves out; the defaults 2, Medium and Understand are for new
\* questions only.
C18_EditKeepsOmitted ==
    [][ req'.op = "edit" /\ flash' = "Question updated." =>
            \A q \in questions :
                q.id = req'.question_id =>
                    \E e \in questions' :
                        /\ e.id = q.id
                        /\ req'.marks = Absent => e.marks = q.marks
                        /\ req'.difficulty = Absent => e.difficulty = q.difficulty
                        /\ req'.cognitive_level = Absent =>
                                e.cognitive_level = q.cognitive_level
      ]_vars

(***************************************************************************)
(* The outcomes of the draw of one band, checked under SpecPaper.          *)
(***************************************************************************)
\* the sequences of n members of P, no member twice
Arrangements(P, n) ==
    {q \in [1..n -> P] : \A i, j \in 1..n : q[i] = q[j] => i = j}

\* C21: the draw of a band excludes no outcome: with pool P and quota k > 0 the
\* selections generate_question_set may return for the band are all the sequences of
\* min(k, |P|) distinct members of P, in every store.
C21_EveryOrderPossible ==
    \A band \in Bands, k \in 1..MaxCount :
        LET P == EligiblePool(1, band)
        IN  generate_question_set(1, <<[diff |-> band, count |-> k]>>)
                = Arrangements(P, Min(k, Cardinality(P)))

\* a call whose quota is the size of the pool returned the two questions of a band
\* with the younger one first
C21_Witness ==
    /\ generated
    /\ Len(paper) = 2
    /\ paper[1].difficulty = paper[2].difficulty
    /\ Cardinality(EligiblePool(1, paper[1].difficulty)) = 2
    /\ paper[1].id > paper[2].id

\* the value the field of a new question is to have: the default when the input has
\* no value for it (no form field, no column, a blank cell), else the value given
given_or(value, default) == IF value \in {Absent, NaN} THEN default ELSE value

\* the new question q was built from the fields f with the defaults 2, Medium and
\* Understand
built_from(q, f) ==
    /\ q.marks = given_or(f.marks, "2")
    /\ q.difficulty = given_or(f.difficulty, "Medium")
    /\ q.cognitive_level = given_or(f.cognitive_level, "Understand")

\* C22: a question constructed by a manual add or by an import has marks 2, difficulty
\* Medium and cognitive level Understand for each of these fields its input lacks, and
\* the value given for each field its input has.
C22_ConstructionDefaults ==
    [][ /\ req'.op = "add" /\ flash' = "Question added." =>
                \A q \in questions' \ questions : built_from(q, req')
        /\ req'.op = "import" /\ flash' = "Questions imported successfully from Excel!" =>
                \A q \in questions' \ questions :
                    \E i \in DOMAIN req'.rows :
                        /\ strip(py_str(req'.rows[i].question_text)) = q.question_text
                        /\ built_from(q, req'.rows[i])
      ]_vars

(***************************************************************************)
(* Manual adds under way together, checked under SpecAddRace.              *)
(***************************************************************************)
\* C23: the store never holds two questions with the same text in the same topic,
\* however the SELECT and INSERT steps of manual adds of several requests interleave.
C23_UniqueUnderRace ==
    \A t \in TopicIds, x \in {strip(y) : y \in RawTexts} :
        Cardinality({q \in questions : q.topic_id = t /\ q.question_text = x}) <= 1

(***************************************************************************)
(* A call of generate_question_set with edits between its band reads,      *)
(* checked under SpecEditRace.                                             *)
(***************************************************************************)
\* C24: the paper a call returns holds no question identifier twice, also when an edit
\* of a question is committed between two band reads of the call.
C24_NoRepeatUnderEdit ==
    [][ \A w \in Workers :
            running(w) /\ ~running(w)' =>
                \A i, j \in DOMAIN paper' : paper'[i].id = paper'[j].id => i = j
      ]_vars

(***************************************************************************)
(* Deletions in the hierarchy, checked under SpecHier.                     *)
(***************************************************************************)
\* the rows of the topic, the module and the subject above the question all exist
attached(q) ==
    \E t \in topics :
        /\ t.id = q.topic_id
        /\ \E m \in modules : m.id = t.module_id /\ m.subject_id \in subjects

\* C25: the deletion of a subject, a module or a topic removes that row and nothing
\* else, no question, module or topic below it; and a question with a missing row
\* above it is on no paper drawn afterwards, for any subject.
C25_DeleteOnlyRow ==
    [][ /\ req'.op = "delete_subject" /\ flash' = "Subject deleted." =>
                /\ subjects' = subjects \ {req'.subject_id}
                /\ modules' = modules /\ topics' = topics /\ questions' = questions
        /\ req'.op = "delete_module" /\ flash' = "Module deleted." =>
                /\ modules' = {m \in modules : m.id # req'.module_id}
                /\ subjects' = subjects /\ topics' = topics /\ questions' = questions
        /\ req'.op = "delete_topic" /\ flash' = "Topic deleted." =>
                /\ topics' = {t \in topics : t.id # req'.topic_id}
                /\ subjects' = subjects /\ modules' = modules /\ questions' = questions
        /\ req'.op = "generate" /\ questions' = questions =>
                \A i \in DOMAIN paper' : paper'[i] \in questions /\ attached(paper'[i])
      ]_vars

\* a paper was asked for the subject of a module whose subject row was deleted and
\* whose topic still holds a question of the band: the paper is empty
C25_Witness ==
    /\ req.op = "generate"
    /\ req.subject_id \notin subjects
    /\ \E q \in questions, t \in topics, m \in modules :
            /\ q.topic_id = t.id /\ t.module_id = m.id /\ m.subject_id = req.subject_id
            /\ q.difficulty = req.dist[1].diff
    /\ paper = <<>>

(***************************************************************************)
(* Requests without the session their route asks for, checked under        *)
(* SpecAuth.                                                               *)
(***************************************************************************)
\* the requests to routes under admin_required
AdminRequiredOps ==
    {"add_subject", "delete_subject", "add_module", "delete_module", "add_topic",
     "delete_topic", "create_user", "import"}

\* the requests to routes under login_required
LoginRequiredOps == {"add", "delete", "edit", "generate_paper"}

\* nothing of the database is written
store_unchanged ==
    /\ tables' = tables
    /\ qseq' = qseq
    /\ hseq' = hseq

\* C26: a request to a route under login_required or admin_required from a session
\* without user_id, and a request to a route under admin_required from a session whose
\* role is not admin, is redirected and leaves every table as it was, also after a
\* logout.
C26_NoMutationWithoutSession ==
    [][ /\ req'.op \in AdminRequiredOps \cup LoginRequiredOps /\ session.user_id = NULL =>
                /\ store_unchanged
                /\ flash' = "Please login to continue."
        /\ req'.op \in AdminRequiredOps /\ session.user_id # NULL /\ session.role # "admin" =>
                /\ store_unchanged
                /\ flash' = "Admin access required."
      ]_vars

\* an import was asked after a login and a logout, and was redirected to the login
C26_Witness ==
    /\ req.op = "import"
    /\ session = NoSession
    /\ logs >= 2
    /\ flash = "Please login to continue."

(***************************************************************************)
(* The import as one transaction, checked under Spec.                      *)
(***************************************************************************)
\* the rows of the sheet at which int() of the marks is reached and raises: the text
\* is not blank, no stored question and no earlier row has it, and the marks are no
\* number
raising_rows(rows) ==
    {i \in DOMAIN rows :
        /\ int_raises(rows[i].marks)
        /\ row_text(rows[i]) # <<>>
        /\ ~\E q \in questions : q.question_text = row_text(rows[i])
        /\ ~\E j \in 1..(i - 1) : row_text(rows[j]) = row_text(rows[i])}

\* C27: an import is all or nothing: when a row raises, no row of the sheet is kept,
\* also none inserted before the one that raised; when none raises, the text of every
\* row that is not blank is in the store afterwards.
C27_AllOrNothing ==
    [][(req'.op = "import" /\ logged_in /\ is_admin) =>
            IF raising_rows(req'.rows) # {}
            THEN /\ tables' = tables
                 /\ qseq' = qseq
                 /\ flash' = "Internal Server Error"
            ELSE /\ flash' = Imported
                 /\ questions \subseteq questions'
                 /\ \A i \in DOMAIN req'.rows :
                        row_text(req'.rows[i]) # <<>> =>
                            \E q \in questions' : q.question_text = row_text(req'.rows[i])
      ]_vars

\* the second row of a sheet raised after the first row had been inserted: the store
\* holds neither
C27_Witness ==
    /\ req.op = "import"
    /\ flash = "Internal Server Error"
    /\ Len(req.rows) = 2
    /\ ~int_raises(req.rows[1].marks)
    /\ row_text(req.rows[1]) = <<"b">>
    /\ int_raises(req.rows[2].marks)
    /\ questions = {}

(***************************************************************************)
(* The frame of an edit, checked under SpecFields.                         *)
(***************************************************************************)
\* C28: a permitted edit overwrites the text, marks, difficulty, cognitive level, CO
\* and PO of the question with the given id and nothing else: its id, topic and
\* creator stay, every other question stays as it is, and the store holds as many
\* questions as before.
C28_EditInPlace ==
    [][ req'.op = "edit" /\ flash' = "Question updated." =>
            /\ Cardinality(questions') = Cardinality(questions)
            /\ qseq' = qseq
            /\ \A q \in questions :
                    IF q.id # req'.question_id
                    THEN q \in questions'
                    ELSE \E e \in questions' :
                            /\ e.id = q.id
                            /\ e.topic_id = q.topic_id
                            /\ e.created_by = q.created_by
                            /\ e.question_text = strip(req'.question_text)
                            /\ e.co = strip(req'.co)
                            /\ e.po = strip(req'.po)
      ]_vars

\* the admin edited an imported question, which has no creator, beside another
\* question: its text is the new one
C28_Witness ==
    /\ req.op = "edit"
    /\ flash = "Question updated."
    /\ Cardinality(questions) = 2
    /\ \E q \in questions :
            /\ q.id = req.question_id
            /\ q.created_by = NULL
            /\ q.question_text = <<"a">>
            /\ q.difficulty = "Hard"
    /\ \E q \in questions : q.id # req.question_id /\ q.difficulty # "Hard"

====
